---- MODULE Spec2Model ----
(***************************************************************************)
(* Model of the time-bucket rollup pipeline of the equipment dashboard:    *)
(*   - the hourly rollup builder, process_data_background                  *)
(*     (preprocess_data.py and its sibling preprocess_data_1.py);          *)
(*   - the re-aggregators sum_by_hour / sum_by_day / sum_by_month and the  *)
(*     Hourly / Daily / Monthly tabs that call them (app.py).              *)
(*                                                                         *)
(* Spec is one builder run on a collection, SpecBatch the batch entry      *)
(* point run repeatedly against a store that may be down, SpecParse the    *)
(* builder on documents whose dtime is no date, SpecReagg the              *)
(* re-aggregators on a prepared file, SpecDash the dashboard script        *)
(* running while a builder rewrites the file.                              *)
(* SpecDump is the batch entry point on numeric field values, SpecThreads  *)
(* the threads of components/background_processor.py on their shared       *)
(* dictionaries, SpecChunks the pagination of utils/database.py and        *)
(* SpecService the monitoring loop of metrics_calculator_service.py        *)
(* (SpecServiceFair: with the main thread scheduled).                      *)
(*                                                                         *)
(* Time is counted in ticks; TicksPerHour ticks make one hour, HoursPerDay *)
(* hours one day and DaysPerMonth days one month.  An hour label, the      *)
(* string strftime('%Y-%m-%d-%H') yields, is the tuple <<month, day, hour>>*)
(* so that the prefixes d[:10] and d[:7] of app.py are prefixes of it.     *)
(*                                                                         *)
(* A Python value is a pair <<type, repr>>: Str("A") is the string 'A',    *)
(* NaN the float nan pandas puts where a document lacks a field.           *)
(***************************************************************************)
EXTENDS Integers, Sequences, FiniteSets, TLC

VARIABLES
    store,      \* the station's collection: documents in natural order
    filters,    \* the filters argument: [start_date, end_date]
    result,     \* what the last process_data_background call returned
    files,      \* the artifact files: directory -> content
    pc,         \* position of the batch job
    rpc,        \* dashboard side: "edit" while the artifact file is being
                \* prepared, "dropped" once a key was removed, "called",
                \* "again" once the call was repeated
    reagg,      \* the last re-aggregation call and what it returned
    ppc,        \* position of the dashboard script in its run
    seen,       \* the file content the last sum_by_* call read
    conn,       \* the record store as the last batch invocation found it
    before,     \* the artifact files as they were when it started
    prev,       \* the invocation before the last one: its collection and
                \* what it returned
    memo,       \* the last sort_values call: its input and its output
    status,     \* exit status of the last batch invocation
    runs,       \* batch invocations so far
    PROCESS_STATUS, \* background_processor.PROCESS_STATUS: the four flags
    SHARED_DATA,    \* background_processor.SHARED_DATA: <<key, value>> pairs
                    \* in insertion order
    loaders,    \* the load_data_background threads: position of each
    calcs,      \* the calculate_metrics_background threads: position and
                \* the dataframe each one read
    resetter,   \* the caller of reset_status: position and keys_to_remove
    snapshot,   \* what the last get_process_status call returned
    started,    \* the last start_background_data_loading call: what it
                \* returned and whether a load was in progress then
    db,         \* utils/database.py: collection name -> its documents
    pager,      \* the caller of get_filtered_data_chunk: the filter, the
                \* offset and the documents received so far
    stop_event, \* metrics_calculator_service.stop_event
    service     \* position of run_continuous_monitoring and its locals

builderVars == <<store, filters, result, pc>>
reaggVars == <<rpc, reagg>>
pageVars == <<ppc, seen>>
batchVars == <<conn, before, prev, memo, status, runs>>
threadVars == <<PROCESS_STATUS, SHARED_DATA, loaders, calcs, resetter,
                snapshot, started>>
chunkVars == <<db, pager>>
serviceVars == <<stop_event, service>>
vars == <<store, filters, result, files, pc, rpc, reagg, ppc, seen,
          conn, before, prev, memo, status, runs, threadVars, chunkVars,
          serviceVars>>

---------------------------------------------------------------------------
(* Bounds of the model *)

TicksPerHour == 2       \* sub-hour resolution of a timestamp
MaxTick == 5            \* timestamps are 0..MaxTick
MaxRecords == 2         \* documents in the collection
HoursPerDay == 2
DaysPerMonth == 2
MaxAxis == 3            \* hours on the axis of a prepared artifact file
MaxValues == 2          \* values in the indices of a prepared artifact file
MaxCount == 2           \* scale of the counts of a prepared artifact file
MaxChunks == 2          \* buffer flushes of json.dump before the file is closed
MaxLoads == 2           \* load_data_background threads started
MaxResets == 1          \* reset_status calls
MaxDocs == 3            \* documents in a collection of the database
PerCollection == 2      \* stands for the 100 documents get_filtered_data_chunk
                        \* takes from one collection at most
MaxStations == 3        \* station collections the metrics service finds
CheckInterval == 3      \* stands for CHECK_INTERVAL, the seconds between cycles

Ticks == 0..MaxTick

---------------------------------------------------------------------------
(* Python values *)

Str(s) == <<"str", s>>
PyInt(r) == <<"int", r>>                \* a Python int, by its repr
NaN == <<"float", "nan">>
None == <<"NoneType", "None">>

\* Python's ==: nan is equal to nothing, itself included
PyEq(a, b) == a = b /\ a # NaN /\ b # NaN

\* The five tracked fields, in the order the builder processes them
TrackedFields == <<"module", "_label", "method", "repo", "_group">>

\* f"{field}_index"
IndexKey(field) ==
    CASE field = "module" -> "module_index"
      [] field = "_label" -> "_label_index"
      [] field = "method" -> "method_index"
      [] field = "repo"   -> "repo_index"
      [] field = "_group" -> "_group_index"

---------------------------------------------------------------------------
(* Time: dt.floor('h') and strftime('%Y-%m-%d-%H') *)

FloorHour(t) == t \div TicksPerHour

Strftime(h) ==
    << h \div (HoursPerDay * DaysPerMonth),
       (h \div HoursPerDay) % DaysPerMonth,
       h % HoursPerDay >>

\* pd.date_range(start, end, freq='h'): start, start + 1h, ... while <= end
DateRange(start, end) ==
    IF start > end THEN << >>
    ELSE [k \in 1..((end - start) \div TicksPerHour + 1) |->
             start + (k - 1) * TicksPerHour]

AllHoursStr(start, end) ==
    LET all_hours == DateRange(start, end)
    IN  [k \in 1..Len(all_hours) |-> Strftime(FloorHour(all_hours[k]))]

\* A stored dtime is a date, the tick it denotes, or Garbage: a value that
\* is no date and that no parser makes one of.  NaT is pandas' missing
\* timestamp; every comparison with NaT is False.
Garbage == 0 - 2
NaT == 0 - 1
IsDate(x) == x \in Ticks

\* a parser that turns what it cannot parse into the start of the epoch
ToDatetimeEpoch(x) == IF IsDate(x) THEN x ELSE 0

\* pd.to_datetime(x, errors='coerce'): the timestamp of a date, NaT for
\* what cannot be parsed; the second pd.to_datetime leaves both as they are
ToDatetime(x) == IF IsDate(x) THEN x ELSE NaT

---------------------------------------------------------------------------
(* The record store and pandas' DataFrame *)

\* collection.find({'dtime': {'$gte': start_date, '$lte': end_date}}): a
\* comparison with a date matches only the documents whose dtime is a date
Find(coll, f) ==
    SelectSeq(coll, LAMBDA d: /\ IsDate(d["dtime"])
                              /\ d["dtime"] >= f.start_date
                              /\ d["dtime"] <= f.end_date)

\* collection.find({}), the query of a call with filters = {}
FindAll(coll) == coll

\* the dtype pandas infers for the column of a tracked field: int64 when
\* every document has an int there, float64 when some have an int and the
\* others lack the field, object otherwise
Dtype(data, c) ==
    LET having == {i \in 1..Len(data) : c \in DOMAIN data[i]}
    IN  IF (\E k \in 1..Len(TrackedFields) : TrackedFields[k] = c) /\ having # {}
           /\ \A i \in having : data[i][c][1] = "int"
        THEN IF having = 1..Len(data) THEN "int64" ELSE "float64"
        ELSE "object"

\* repr of the float an int becomes in a float64 column
FloatRepr(r) == CASE r = "7" -> "7.0"

\* a value as the column of that dtype holds it: a numpy scalar in a numeric
\* column, the Python object itself in an object column
Cell(v, dtype) ==
    CASE dtype = "int64" -> <<"int64", v[2]>>
      [] dtype = "float64" /\ v # NaN -> <<"float64", FloatRepr(v[2])>>
      [] OTHER -> v

\* ndarray.tolist(): numpy scalars become Python ints and floats
Tolist(s) ==
    [i \in 1..Len(s) |->
        CASE s[i][1] = "int64" -> PyInt(s[i][2])
          [] s[i][1] = "float64" -> <<"float", s[i][2]>>
          [] OTHER -> s[i]]

\* pd.DataFrame(data): the columns are the union of the documents' keys; a
\* document without the key holds NaN in that column
DataFrame(data) ==
    LET columns == UNION {DOMAIN data[i] : i \in 1..Len(data)}
    IN  [columns |-> columns,
         rows |-> [i \in 1..Len(data) |->
                     [c \in columns |->
                        IF c \in DOMAIN data[i]
                        THEN Cell(data[i][c], Dtype(data, c))
                        ELSE NaN]]]

\* df['dtime'] = pd.to_datetime(df['dtime'], errors='coerce')
Coerced(rows) ==
    [i \in 1..Len(rows) |-> [rows[i] EXCEPT !["dtime"] = ToDatetime(@)]]

\* the order of sort_values: ascending, NaT last
NotAfter(a, b) == b = NaT \/ (a # NaT /\ a <= b)

\* df.sort_values(by="datetime"): the default kind, quicksort, is not stable,
\* so every ascending arrangement of the rows is a possible outcome
SortValues(rows) ==
    LET n == Len(rows)
        perms == {p \in [1..n -> 1..n] :
                    /\ \A i, j \in 1..n : i # j => p[i] # p[j]
                    /\ \A i, j \in 1..n :
                          i < j => NotAfter(rows[p[i]]["dtime"], rows[p[j]]["dtime"])}
    IN  {[i \in 1..n |-> rows[p[i]]] : p \in perms}

\* Series.unique(): the distinct values in order of first appearance; NaN
\* is one value
RECURSIVE Unique(_)
Unique(s) ==
    IF s = << >> THEN << >>
    ELSE LET front == Unique(SubSeq(s, 1, Len(s) - 1))
             last == s[Len(s)]
         IN  IF \E i \in 1..Len(front) : front[i] = last
             THEN front ELSE Append(front, last)

Column(rows, c) == [i \in 1..Len(rows) |-> rows[i][c]]

Range(s) == {s[i] : i \in 1..Len(s)}

---------------------------------------------------------------------------
(* The hourly rollup builder: process_data_background *)

\* the key of a field's table in the artifact
TableKey(field) ==
    CASE field = "module" -> "module_counts_per_hour"
      [] field = "_label" -> "label_counts_per_hour"
      [] field = "method" -> "method_counts_per_hour"
      [] field = "repo"   -> "repo_counts_per_hour"
      [] field = "_group" -> "group_counts_per_hour"

\* df[(df['datetime'] >= start_date) & (df['datetime'] <= end_date)]
DfFiltered(rows, f) ==
    SelectSeq(rows, LAMBDA r: /\ r["dtime"] # NaT
                              /\ r["dtime"] >= f.start_date
                              /\ r["dtime"] <= f.end_date)

HourOf(r) == Strftime(FloorHour(r["dtime"]))

\* count_records_per_hour(field): groupby([hour, field]).size() as rows
\* (datetime, value, count); groupby leaves out the rows whose key is NaN
CountRecordsPerHour(df_filtered, field) ==
    LET keyed == {i \in 1..Len(df_filtered) : df_filtered[i][field] # NaN}
        groups == {<<HourOf(df_filtered[i]), df_filtered[i][field]>> : i \in keyed}
    IN  {[datetime |-> g[1], value |-> g[2],
          count |-> Cardinality({i \in keyed :
                       <<HourOf(df_filtered[i]), df_filtered[i][field]>> = g})]
         : g \in groups}

\* to_dict_format without the zero fill: only the hours that have a row
FilledCountsNoFill(counts_per_hour, value, all_hours_str) ==
    LET present == SelectSeq(all_hours_str, LAMBDA hour :
                       \E g \in counts_per_hour :
                           g.datetime = hour /\ PyEq(g.value, value))
    IN  [k \in 1..Len(present) |->
            (CHOOSE g \in counts_per_hour :
                g.datetime = present[k] /\ PyEq(g.value, value)).count]

\* to_dict_format filling an hour without a row with 1 instead of 0
FilledCountsOne(counts_per_hour, value, all_hours_str) ==
    [k \in 1..Len(all_hours_str) |->
        LET hit == {g \in counts_per_hour :
                      g.datetime = all_hours_str[k] /\ PyEq(g.value, value)}
        IN  IF hit # {} THEN (CHOOSE g \in hit : TRUE).count ELSE 1]

\* the list comprehension of to_dict_format: the count of (hour, value), 0
\* when counts_per_hour has no such row
FilledCounts(counts_per_hour, value, all_hours_str) ==
    [k \in 1..Len(all_hours_str) |->
        LET hit == {g \in counts_per_hour :
                      g.datetime = all_hours_str[k] /\ PyEq(g.value, value)}
        IN  IF hit # {} THEN (CHOOSE g \in hit : TRUE).count ELSE 0]

\* to_dict_format(counts_per_hour, field): a dict holding the index under
\* f"{field}_index" and one count list under each value of the index
ToDictFormat(counts_per_hour, df_filtered, field, all_hours_str) ==
    LET field_values == Unique(Column(df_filtered, field))
        values == Range(field_values)
    IN  [k \in {Str(IndexKey(field))} \cup values |->
            IF k \in values
            THEN FilledCounts(counts_per_hour, k, all_hours_str)
            ELSE Tolist(field_values)]

\* log counts that hold the number of all filtered rows at every position
LogCountsPerHourTotal(df_filtered, all_hours_str) ==
    [k \in 1..Len(all_hours_str) |->
        Cardinality({r["_id"] : r \in Range(df_filtered)})]

\* groupby(hour)["_id"].nunique(), reindexed on all_hours_str with 0
LogCountsPerHour(df_filtered, all_hours_str) ==
    [k \in 1..Len(all_hours_str) |->
        Cardinality({r["_id"] : r \in {x \in Range(df_filtered) :
                                          HourOf(x) = all_hours_str[k]}})]

Failure == [ok |-> FALSE]

\* preprocess_data.py, from the sorted frame on: the dict `data`
BuildData(sorted, f) ==
    LET all_hours_str == AllHoursStr(f.start_date, f.end_date)
        df_filtered == DfFiltered(sorted, f)
        table(field) == ToDictFormat(CountRecordsPerHour(df_filtered, field),
                                     df_filtered, field, all_hours_str)
    IN  [dates |-> all_hours_str,
         module_counts_per_hour |-> table("module"),
         label_counts_per_hour |-> table("_label"),
         method_counts_per_hour |-> table("method"),
         repo_counts_per_hour |-> table("repo"),
         log_counts_per_hour |-> LogCountsPerHour(df_filtered, all_hours_str),
         group_counts_per_hour |-> table("_group")]

\* preprocess_data_1.py: the same without the group table and the log counts
BuildData1(sorted, f) ==
    LET all_hours_str == AllHoursStr(f.start_date, f.end_date)
        df_filtered == DfFiltered(sorted, f)
        table(field) == ToDictFormat(CountRecordsPerHour(df_filtered, field),
                                     df_filtered, field, all_hours_str)
    IN  [dates |-> all_hours_str,
         module_counts_per_hour |-> table("module"),
         label_counts_per_hour |-> table("_label"),
         method_counts_per_hour |-> table("method"),
         repo_counts_per_hour |-> table("repo")]

\* a KeyError: no nonce column, no datetime column, or a tracked field that
\* no document has
BuilderRaises(df) ==
    \/ "nonce" \notin df.columns
    \/ "dtime" \notin df.columns
    \/ \E k \in 1..Len(TrackedFields) : TrackedFields[k] \notin df.columns

\* preprocess_data.process_data_background up to json.dump: the possible
\* values of `data`, or the failure value when a KeyError has been caught by
\* the except clause, which returns False
ProcessDataBackground(coll, f) ==
    LET df == DataFrame(Find(coll, f))
    IN  IF BuilderRaises(df)
        THEN {Failure}
        ELSE {[ok |-> TRUE, data |-> BuildData(sorted, f)]
                : sorted \in SortValues(Coerced(df.rows))}

\* preprocess_data_1.process_data_background
ProcessDataBackground1(coll, f) ==
    LET df == DataFrame(Find(coll, f))
    IN  IF \/ "dtime" \notin df.columns
           \/ \E k \in 1..4 : TrackedFields[k] \notin df.columns
        THEN {Failure}
        ELSE {[ok |-> TRUE, data |-> BuildData1(sorted, f)]
                : sorted \in SortValues(Coerced(df.rows))}

\* preprocess_data.process_data_background called with filters = {}: the
\* query is {}, every document is fetched, and the range is the one lines
\* 65-66 compute from the clock, here f
ProcessDataBackgroundNoFilters(coll, f) ==
    LET df == DataFrame(FindAll(coll))
    IN  IF BuilderRaises(df)
        THEN {Failure}
        ELSE {[ok |-> TRUE, data |-> BuildData(sorted, f)]
                : sorted \in SortValues(Coerced(df.rows))}

---------------------------------------------------------------------------
(* The artifact file: json.dump and json.load *)

\* json.dump does not accept a key that is a numpy.int64
DumpRaises(data) ==
    \E key \in DOMAIN data \ {"dates", "log_counts_per_hour"} :
        \E k \in DOMAIN data[key] : k[1] = "int64"

\* json.dump writes a str key as it is, the key None as "null", the float
\* key nan as "NaN" and an int or float key (numpy.float64 is a float) as
\* its repr
JsonKey(k) ==
    CASE k[1] = "str" -> k[2]
      [] k = None -> "null"
      [] k = NaN -> "NaN"
      [] OTHER -> k[2]

JsonTable(t) ==
    [s \in {JsonKey(k) : k \in DOMAIN t} |->
        t[CHOOSE k \in DOMAIN t : JsonKey(k) = s]]

\* what json.load returns for the file json.dump(data) wrote: the tables'
\* keys are strings, the lists are unchanged
JsonDump(data) ==
    [key \in DOMAIN data |->
        IF key \in {"dates", "log_counts_per_hour"}
        THEN data[key] ELSE JsonTable(data[key])]

NoFile == [state |-> "absent"]
WholeFile(data) == [state |-> "complete", json |-> JsonDump(data)]

\* a file that open(file_path, 'w') has emptied and json.dump has not
\* finished: what was there is gone, what is there is no JSON document
TornFile == [state |-> "partial", written |-> 0, json |-> << >>]

\* what process_data_background returns when the try block has come to
\* `data` = r: the except clause turns an exception of json.dump into False
Returned(r) == IF r.ok /\ DumpRaises(r.data) THEN Failure ELSE r

\* a builder that opens its file for writing before it reads the store
FileAfterTruncated(file, r) ==
    IF r.ok /\ ~DumpRaises(r.data) THEN WholeFile(r.data) ELSE TornFile

\* the artifact file after the call: open(file_path, 'w') and json.dump are
\* reached only when nothing has raised before; when json.dump raises, the
\* file has been opened for writing and is left as far as it was written
FileAfter(file, r) ==
    IF ~r.ok THEN file
    ELSE IF DumpRaises(r.data) THEN TornFile
    ELSE WholeFile(r.data)

---------------------------------------------------------------------------
(* The re-aggregators of app.py: sum_by_hour, sum_by_day, sum_by_month *)

\* "null" if index == None else str(index)
IndexT(index) ==
    CASE index = None -> "null"
      [] index[1] = "str" -> index[2]
      [] index = NaN -> "nan"
      [] OTHER -> index[2]

\* d[:10] keeps year-month-day, d[:7] year-month
DayPrefix == 2
MonthPrefix == 1
Truncate(label, plen) == SubSeq(label, 1, plen)

\* a < b for two labels of the same length, as Python orders the strings
RECURSIVE LabelLess(_, _)
LabelLess(a, b) ==
    IF a = << >> THEN FALSE
    ELSE \/ a[1] < b[1]
         \/ a[1] = b[1] /\ LabelLess(Tail(a), Tail(b))

\* the keys of groupby("date"), which sorts them
RECURSIVE SortedKeys(_)
SortedKeys(S) ==
    IF S = {} THEN << >>
    ELSE LET least == CHOOSE x \in S : \A y \in S \ {x} : LabelLess(x, y)
         IN  <<least>> \o SortedKeys(S \ {least})

\* the key of a field's table in the result of sum_by_day / sum_by_month
ResultKey(field, plen) ==
    IF plen = DayPrefix
    THEN CASE field = "module" -> "module_counts_per_day"
           [] field = "_label" -> "label_counts_per_day"
           [] field = "method" -> "method_counts_per_day"
           [] field = "repo"   -> "repo_counts_per_day"
           [] field = "_group" -> "group_counts_per_day"
           [] field = "log"    -> "log_counts_per_day"
    ELSE CASE field = "module" -> "module_counts_per_month"
           [] field = "_label" -> "label_counts_per_month"
           [] field = "method" -> "method_counts_per_month"
           [] field = "repo"   -> "repo_counts_per_month"
           [] field = "_group" -> "group_counts_per_month"
           [] field = "log"    -> "log_counts_per_month"

\* {**table} followed by del table[f"{field}_index"]
Stripped(hourly_data, field) ==
    LET table == hourly_data[TableKey(field)]
    IN  [k \in DOMAIN table \ {IndexKey(field)} |-> table[k]]

\* the dict given to pd.DataFrame: "date" and then the six dicts spread into
\* one namespace, a later entry replacing an earlier one of the same key
FrameColumns(hourly_data, plen) ==
    Stripped(hourly_data, "_group")
      @@ ("log_counts_per_hour" :> hourly_data.log_counts_per_hour)
      @@ Stripped(hourly_data, "repo")
      @@ Stripped(hourly_data, "method")
      @@ Stripped(hourly_data, "_label")
      @@ Stripped(hourly_data, "module")
      @@ ("date" :> [i \in 1..Len(hourly_data.dates) |->
                        Truncate(hourly_data.dates[i], plen)])

\* groupby("date").sum().reset_index(): one row per date, in sorted order
Aggregated(columns) ==
    LET date == columns["date"]
        keys == SortedKeys(Range(date))
        rowsOf(g) == {i \in 1..Len(date) : date[i] = keys[g]}
        RECURSIVE total(_, _)
        total(col, I) ==
            IF I = {} THEN 0
            ELSE LET i == CHOOSE x \in I : TRUE
                 IN  col[i] + total(col, I \ {i})
    IN  [c \in DOMAIN columns |->
            IF c = "date" THEN keys
            ELSE [g \in 1..Len(keys) |-> total(columns[c], rowsOf(g))]]

\* a loop that keeps, of an aggregated column, only the dates on which the
\* value occurs
CountPerOccurring(hourly_data, aggregated, field) ==
    LET index == hourly_data[TableKey(field)][IndexKey(field)]
        names == {IndexT(index[n]) : n \in 1..Len(index)}
    IN  [k \in {IndexKey(field)} \cup names |->
            IF k \in names THEN SelectSeq(aggregated[k], LAMBDA c : c > 0)
            ELSE index]

\* the loop that fills <field>_count_per_day: the index as it is, and under
\* each index_t the aggregated column of that name
CountPer(hourly_data, aggregated, field) ==
    LET index == hourly_data[TableKey(field)][IndexKey(field)]
        names == {IndexT(index[n]) : n \in 1..Len(index)}
    IN  [k \in {IndexKey(field)} \cup names |->
            IF k \in names THEN aggregated[k] ELSE index]

\* what raises inside the try block (KeyError, ValueError) and makes the
\* function return False
ReaggRaises(hourly_data, plen) ==
    \/ \E k \in 1..Len(TrackedFields) :
          \/ TableKey(TrackedFields[k]) \notin DOMAIN hourly_data
          \/ IndexKey(TrackedFields[k]) \notin DOMAIN hourly_data[TableKey(TrackedFields[k])]
    \/ "log_counts_per_hour" \notin DOMAIN hourly_data
    \/ "dates" \notin DOMAIN hourly_data
    \/ LET columns == FrameColumns(hourly_data, plen)
       IN  \/ \E c \in DOMAIN columns : Len(columns[c]) # Len(columns["date"])
           \/ \E k \in 1..Len(TrackedFields) :
                 LET index == hourly_data[TableKey(TrackedFields[k])][IndexKey(TrackedFields[k])]
                 IN  \E n \in 1..Len(index) : IndexT(index[n]) \notin DOMAIN columns

\* the body shared by sum_by_day (plen = DayPrefix) and sum_by_month
Reaggregate(file, plen) ==
    IF file.state # "complete" THEN Failure
    ELSE IF ReaggRaises(file.json, plen) THEN Failure
    ELSE LET hourly_data == file.json
             aggregated == Aggregated(FrameColumns(hourly_data, plen))
         IN  [ok |-> TRUE,
              data |->
                 ("dates" :> aggregated["date"])
                 @@ [key \in {ResultKey(TrackedFields[k], plen) : k \in 1..5} |->
                       LET field == CHOOSE f \in Range(TrackedFields) :
                                       ResultKey(f, plen) = key
                       IN  CountPer(hourly_data, aggregated, field)]
                 @@ (ResultKey("log", plen) :> aggregated["log_counts_per_hour"])]

NoCall == [fn |-> "none", ret |-> Failure]

\* hourly_data after a body that deletes the index keys from the tables
\* themselves
HourlyAfterDel(hourly_data) ==
    [key \in DOMAIN hourly_data |->
        IF \E k \in 1..Len(TrackedFields) : TableKey(TrackedFields[k]) = key
        THEN LET field == CHOOSE f \in Range(TrackedFields) : TableKey(f) = key
             IN  Stripped(hourly_data, field)
        ELSE hourly_data[key]]

\* hourly_data after the body of sum_by_day / sum_by_month: {**table} is a
\* new dict, del removes the index key from that dict, and nothing else is
\* assigned into hourly_data
HourlyAfter(hourly_data) == [key \in DOMAIN hourly_data |-> hourly_data[key]]

\* the structure json.load gave, as it is when the function returns
LoadedAfter(file) ==
    IF file.state # "complete" THEN NoFile
    ELSE [state |-> "complete", json |-> HourlyAfter(file.json)]

SumByDay(file) == Reaggregate(file, DayPrefix)
SumByMonth(file) == Reaggregate(file, MonthPrefix)

\* sum_by_hour: the loaded artifact as it is
SumByHour(file) ==
    IF file.state # "complete" THEN Failure
    ELSE [ok |-> TRUE, data |-> file.json]

---------------------------------------------------------------------------
(* The batch job: a collection, a range, one builder run *)

\* The documents of the model.  Every document has _id, dtime, nonce, method,
\* repo and _group; module and _label are optional.
DocFields(shape) ==
    CASE shape = "both"     -> ("module" :> Str("A")) @@ ("_label" :> Str("A"))
      [] shape = "no_label" -> ("module" :> Str("B"))
      [] shape = "no_module" -> ("_label" :> Str("A"))
      [] shape = "numeric"  -> ("module" :> PyInt("7")) @@ ("_label" :> Str("A"))

DocShapes == {"both", "no_label", "no_module"}

Doc(id, t, shape) ==
    DocFields(shape) @@ ("_id" :> id) @@ ("dtime" :> t)
       @@ ("nonce" :> <<"dict", "nonce">>) @@ ("method" :> Str("GET"))
       @@ ("repo" :> Str("main")) @@ ("_group" :> Str("G1"))

\* background_processor.py as imported: the flags False, SHARED_DATA empty,
\* no thread started
NoFlags == [loading_data |-> FALSE, data_loaded |-> FALSE,
            calculating_metrics |-> FALSE, metrics_calculated |-> FALSE]
NoCallYet == [ret |-> "none", busy |-> FALSE]
NoThreads ==
    /\ PROCESS_STATUS = NoFlags
    /\ SHARED_DATA = << >>
    /\ loaders = [i \in 1..MaxLoads |-> "none"]
    /\ calcs = [i \in 1..MaxLoads |-> [pc |-> "none", df |-> 0]]
    /\ resetter = [pc |-> "idle", n |-> 0, keys |-> << >>, calls |-> 0]
    /\ snapshot = NoFlags
    /\ started = NoCallYet

\* utils/database.py: the names list_collection_names() yields, in its order
Stations == <<"s1", "s2", "s3">>
NoFilter == [station |-> "Select Station", group |-> "Select Group", limit |-> 0]
\* empty collections, no get_filtered_data_chunk call yet
NoChunks ==
    /\ db = [s \in Range(Stations) |-> << >>]
    /\ pager = [pc |-> "setup", filter |-> NoFilter, skip |-> 0, got |-> << >>]

\* metrics_calculator_service.py: main() has installed signal_handler and
\* calls run_continuous_monitoring
NoService ==
    /\ stop_event = FALSE
    /\ service = [pc |-> "start", stations |-> 0, station |-> 0,
                  success_count |-> 0, slept |-> 0, interrupted |-> "none",
                  ret |-> "none"]

\* no batch invocation has taken place
NoSort == [input |-> << >>, output |-> << >>]
NoRuns ==
    /\ conn = "up"
    /\ before = [measurement |-> NoFile, forgraph |-> NoFile]
    /\ prev = [store |-> << >>, ret |-> Failure]
    /\ memo = NoSort
    /\ status = "none"
    /\ runs = 0
    /\ NoThreads
    /\ NoChunks
    /\ NoService

Init ==
    /\ store = << >>
    /\ filters \in [start_date : 0..(TicksPerHour - 1), end_date : Ticks]
    /\ result = Failure
    /\ files = [measurement |-> NoFile, forgraph |-> NoFile]
    /\ pc = "idle"
    /\ rpc = "edit"
    /\ reagg = NoCall
    /\ ppc = "start"
    /\ seen = NoFile
    /\ NoRuns

\* a document is inserted into the station's collection
InsertDoc ==
    /\ pc = "idle"
    /\ Len(store) < MaxRecords
    /\ \E t \in Ticks, shape \in DocShapes :
          store' = Append(store, Doc(Len(store) + 1, t, shape))
    /\ UNCHANGED <<threadVars, chunkVars, serviceVars>>
    /\ UNCHANGED <<batchVars, filters, result, files, pc, reaggVars, pageVars>>

\* python preprocess_data.py: the artifact goes to measurement/
RunBuilder ==
    /\ pc = "idle"
    /\ \E r \in ProcessDataBackground(store, filters) :
          /\ result' = Returned(r)
          /\ files' = [files EXCEPT !.measurement = FileAfter(@, r)]
    /\ pc' = "returned"
    /\ UNCHANGED <<threadVars, chunkVars, serviceVars>>
    /\ UNCHANGED <<batchVars, store, filters, reaggVars, pageVars>>

\* preprocess_data_1.process_data_background: the artifact goes to forgraph/
RunBuilder1 ==
    /\ pc = "idle"
    /\ \E r \in ProcessDataBackground1(store, filters) :
          /\ result' = Returned(r)
          /\ files' = [files EXCEPT !.forgraph = FileAfter(@, r)]
    /\ pc' = "returned1"
    /\ UNCHANGED <<threadVars, chunkVars, serviceVars>>
    /\ UNCHANGED <<batchVars, store, filters, reaggVars, pageVars>>

Next == InsertDoc \/ RunBuilder \/ RunBuilder1

Spec == Init /\ [][Next]_vars

---------------------------------------------------------------------------
(* The batch entry point, python preprocess_data.py, run again and again *)

MaxRuns == 2            \* invocations of the batch entry point

\* the record store as an invocation finds it: reachable; not reachable
\* (server selection fails); reachable, the read running into the timeout
Connections == {"up", "unreachable", "read_timeout"}

\* a sort whose tie order is chosen anew at every call
QuicksortFresh(rows, m) == SortValues(rows)

\* sort_values is a procedure without a random choice: a frame it has
\* sorted before comes out in the arrangement it came out in then
Quicksort(rows, m) ==
    IF m.input = rows THEN {m.output} ELSE SortValues(rows)

\* process_data_background from MongoClient(...) to convert_to_python_types:
\* the value it is about to return and the sort that took place.  With the
\* store not reachable or the read timing out, list(cursor) raises and the
\* except clause returns False.
FetchAndBuild(coll, f, c, m) ==
    IF c # "up" THEN {[ret |-> Failure, sort |-> m]}
    ELSE LET df == DataFrame(Find(coll, f))
         IN  IF BuilderRaises(df) THEN {[ret |-> Failure, sort |-> m]}
             ELSE {[ret |-> [ok |-> TRUE, data |-> BuildData(sorted, f)],
                    sort |-> [input |-> Coerced(df.rows), output |-> sorted]]
                     : sorted \in Quicksort(Coerced(df.rows), m)}

InitBatch ==
    /\ store = << >>
    /\ filters \in [start_date : {0}, end_date : Ticks]
    /\ result = Failure
    /\ files = [measurement |-> NoFile, forgraph |-> NoFile]
    /\ pc = "idle"
    /\ rpc = "edit"
    /\ reagg = NoCall
    /\ ppc = "start"
    /\ seen = NoFile
    /\ NoRuns

\* python preprocess_data.py: __main__ calls process_data_background, drops
\* what it returns, and the interpreter exits with status 0
Invoke ==
    /\ pc \in {"idle", "returned"}
    /\ runs < MaxRuns
    /\ \E c \in Connections : \E o \in FetchAndBuild(store, filters, c, memo) :
          /\ conn' = c
          /\ result' = Returned(o.ret)
          /\ memo' = o.sort
          /\ files' = [files EXCEPT !.measurement = FileAfter(@, o.ret)]
    /\ before' = files
    /\ prev' = [store |-> store, ret |-> result]
    /\ status' = "0"
    /\ runs' = runs + 1
    /\ pc' = "returned"
    /\ UNCHANGED <<threadVars, chunkVars, serviceVars>>
    /\ UNCHANGED <<store, filters, reaggVars, pageVars>>

NextBatch == InsertDoc \/ Invoke

SpecBatch == InitBatch /\ [][NextBatch]_vars

---------------------------------------------------------------------------
(* The batch entry point on a collection holding numbers as field values *)

TypedShapes == DocShapes \cup {"numeric"}

InitDump ==
    /\ store = << >>
    /\ filters = [start_date |-> 0, end_date |-> MaxTick]
    /\ result = Failure
    /\ files = [measurement |-> NoFile, forgraph |-> NoFile]
    /\ pc = "idle"
    /\ rpc = "edit"
    /\ reagg = NoCall
    /\ ppc = "start"
    /\ seen = NoFile
    /\ NoRuns

\* a document is inserted whose module is a string, a number or absent
InsertTyped ==
    /\ pc = "idle"
    /\ Len(store) < MaxRecords
    /\ \E t \in Ticks, shape \in TypedShapes :
          store' = Append(store, Doc(Len(store) + 1, t, shape))
    /\ UNCHANGED <<threadVars, chunkVars, serviceVars>>
    /\ UNCHANGED <<batchVars, filters, result, files, pc, reaggVars, pageVars>>

NextDump == InsertTyped \/ Invoke

SpecDump == InitDump /\ [][NextDump]_vars

---------------------------------------------------------------------------
(* The builder on a collection holding documents whose dtime is no date *)

InitParse ==
    /\ store = << >>
    /\ filters \in [start_date : {0}, end_date : Ticks]
    /\ result = Failure
    /\ files = [measurement |-> NoFile, forgraph |-> NoFile]
    /\ pc = "idle"
    /\ rpc = "edit"
    /\ reagg = NoCall
    /\ ppc = "start"
    /\ seen = NoFile
    /\ NoRuns

\* a document is inserted whose dtime is a date or is Garbage
InsertRaw ==
    /\ pc = "idle"
    /\ Len(store) < MaxRecords
    /\ \E t \in Ticks \cup {Garbage}, shape \in DocShapes :
          store' = Append(store, Doc(Len(store) + 1, t, shape))
    /\ UNCHANGED <<threadVars, chunkVars, serviceVars>>
    /\ UNCHANGED <<batchVars, filters, result, files, pc, reaggVars, pageVars>>

\* process_data_background(..., filters = {}) at a time when lines 65-66
\* compute the range held in `filters`
RunNoFilters ==
    /\ pc = "idle"
    /\ \E r \in ProcessDataBackgroundNoFilters(store, filters) :
          /\ result' = Returned(r)
          /\ files' = [files EXCEPT !.measurement = FileAfter(@, r)]
    /\ pc' = "returned_nofilters"
    /\ UNCHANGED <<threadVars, chunkVars, serviceVars>>
    /\ UNCHANGED <<batchVars, store, filters, reaggVars, pageVars>>

NextParse == InsertRaw \/ RunBuilder \/ RunNoFilters

SpecParse == InitParse /\ [][NextParse]_vars

---------------------------------------------------------------------------
(* The dashboard's re-aggregation of an artifact file found in forgraph/ *)

\* The prepared files start at the last hour of a month, so that an axis of
\* two hours or more spans two days and two months.
AxisStart == HoursPerDay * DaysPerMonth - 1

\* an artifact with n hours, no value in any index, and log counts 1..n
EmptyArtifact(n) ==
    [dates |-> [k \in 1..n |-> Strftime(AxisStart + k - 1)],
     module_counts_per_hour |-> ("module_index" :> << >>),
     label_counts_per_hour |-> ("_label_index" :> << >>),
     method_counts_per_hour |-> ("method_index" :> << >>),
     repo_counts_per_hour |-> ("repo_index" :> << >>),
     log_counts_per_hour |-> [k \in 1..n |-> k],
     group_counts_per_hour |-> ("_group_index" :> << >>)]

\* the fields that get values, and the entries an index may hold after
\* json.load: a string, null, NaN
PreparedFields == {"module", "_label", "_group"}
IndexEntries == {Str("A"), None, NaN}

ValuesIn(json) ==
    LET count(field) ==
            IF TableKey(field) \in DOMAIN json
            THEN Cardinality(DOMAIN json[TableKey(field)] \ {IndexKey(field)})
            ELSE 0
    IN  count("module") + count("_label") + count("_group")

InitReagg ==
    /\ store = << >>
    /\ filters = [start_date |-> 0, end_date |-> 0]
    /\ result = Failure
    /\ pc = "idle"
    /\ \E n \in 1..MaxAxis :
          files = [measurement |-> NoFile,
                   forgraph |-> [state |-> "complete", json |-> EmptyArtifact(n)]]
    /\ rpc = "edit"
    /\ reagg = NoCall
    /\ ppc = "start"
    /\ seen = NoFile
    /\ NoRuns

\* the file gains a value: an entry e in a field's index and, under the key
\* json.dump gives e, the counts c, 2c, 3c, ..., or 0, 2, 3, ... for a
\* value that does not occur in the first hour
AddValue ==
    /\ rpc = "edit"
    /\ ValuesIn(files.forgraph.json) < MaxValues
    /\ \E field \in PreparedFields, e \in IndexEntries, c \in 1..MaxCount,
          late \in BOOLEAN :
          LET json == files.forgraph.json
              table == json[TableKey(field)]
              index == table[IndexKey(field)]
              counts == [k \in 1..Len(json.dates) |->
                            IF late /\ k = 1 THEN 0 ELSE c * k]
              grown == (JsonKey(e) :> counts)
                          @@ (IndexKey(field) :> Append(index, e)) @@ table
          IN  /\ e \notin Range(index)
              /\ late => c = 1
              /\ files' = [files EXCEPT !.forgraph.json =
                              [json EXCEPT ![TableKey(field)] = grown]]
    /\ UNCHANGED <<threadVars, chunkVars, serviceVars>>
    /\ UNCHANGED <<batchVars, builderVars, rpc, reagg, pageVars>>

\* the file loses an expected key: a top-level key, or a key of a table
DropKey ==
    /\ rpc = "edit"
    /\ LET json == files.forgraph.json
       IN  \/ \E key \in DOMAIN json :
                 files' = [files EXCEPT !.forgraph.json =
                              [k \in DOMAIN json \ {key} |-> json[k]]]
           \/ \E field \in PreparedFields : \E key \in DOMAIN json[TableKey(field)] :
                 LET table == json[TableKey(field)]
                 IN  files' = [files EXCEPT !.forgraph.json =
                         [json EXCEPT ![TableKey(field)] =
                             [k \in DOMAIN table \ {key} |-> table[k]]]]
    /\ rpc' = "dropped"
    /\ UNCHANGED <<threadVars, chunkVars, serviceVars>>
    /\ UNCHANGED <<batchVars, builderVars, reagg, pageVars>>

\* the Daily tab calls sum_by_day
CallSumByDay ==
    /\ rpc \in {"edit", "dropped"}
    /\ reagg' = [fn |-> "sum_by_day", ret |-> SumByDay(files.forgraph),
                 loaded |-> LoadedAfter(files.forgraph)]
    /\ rpc' = "called"
    /\ UNCHANGED <<threadVars, chunkVars, serviceVars>>
    /\ UNCHANGED <<batchVars, builderVars, files, pageVars>>

\* the Monthly tab calls sum_by_month
CallSumByMonth ==
    /\ rpc \in {"edit", "dropped"}
    /\ reagg' = [fn |-> "sum_by_month", ret |-> SumByMonth(files.forgraph),
                 loaded |-> LoadedAfter(files.forgraph)]
    /\ rpc' = "called"
    /\ UNCHANGED <<threadVars, chunkVars, serviceVars>>
    /\ UNCHANGED <<batchVars, builderVars, files, pageVars>>

\* the page is loaded once more: the function called before is called again
\* (the file is read anew, or st.cache_data hands back what it stored)
CallAgain ==
    /\ rpc \in {"called", "again"}
    /\ reagg' = [fn |-> reagg.fn,
                 ret |-> IF reagg.fn = "sum_by_day"
                         THEN SumByDay(files.forgraph)
                         ELSE SumByMonth(files.forgraph),
                 loaded |-> LoadedAfter(files.forgraph)]
    /\ rpc' = "again"
    /\ UNCHANGED <<threadVars, chunkVars, serviceVars>>
    /\ UNCHANGED <<batchVars, builderVars, files, pageVars>>

NextReagg == AddValue \/ DropKey \/ CallSumByDay \/ CallSumByMonth \/ CallAgain

SpecReagg == InitReagg /\ [][NextReagg]_vars

---------------------------------------------------------------------------
(* The dashboard script running while a builder rewrites the artifact file *)

\* the collections and the file the dashboard may find in forgraph/
DashStores ==
    { << >>,
      <<Doc(1, 0, "both")>>,
      <<Doc(1, 0, "both"), Doc(2, TicksPerHour, "no_label")>> }

Deployed ==
    LET whole == [start_date |-> 0, end_date |-> MaxTick]
    IN  WholeFile((CHOOSE r \in ProcessDataBackground(<<Doc(1, 0, "both")>>, whole) :
                      r.ok).data)

InitDash ==
    /\ store \in DashStores
    /\ filters = [start_date |-> 0, end_date |-> MaxTick]
    /\ result = Failure
    /\ pc = "idle"
    /\ files \in [measurement : {NoFile}, forgraph : {NoFile, Deployed}]
    /\ rpc = "edit"
    /\ reagg = NoCall
    /\ ppc = "start"
    /\ seen = NoFile
    /\ NoRuns

\* process_data_background up to `data = convert_to_python_types(data)`:
\* preprocess_data.py (script "open") or preprocess_data_1.py ("open1")
Compute ==
    /\ pc = "idle"
    /\ \/ \E r \in ProcessDataBackground(store, filters) :
             result' = r /\ pc' = IF r.ok THEN "open" ELSE "idle"
       \/ \E r \in ProcessDataBackground1(store, filters) :
             result' = r /\ pc' = IF r.ok THEN "open1" ELSE "idle"
    /\ UNCHANGED <<threadVars, chunkVars, serviceVars>>
    /\ UNCHANGED <<batchVars, store, filters, files, reaggVars, pageVars>>

\* open(file_path, 'w'): the file exists and is empty
OpenFile ==
    /\ pc \in {"open", "open1"}
    /\ LET content == [state |-> "partial", written |-> 0,
                       json |-> JsonDump(result.data)]
       IN  files' = IF pc = "open"
                    THEN [files EXCEPT !.measurement = content]
                    ELSE [files EXCEPT !.forgraph = content]
    /\ pc' = IF pc = "open" THEN "dump" ELSE "dump1"
    /\ UNCHANGED <<threadVars, chunkVars, serviceVars>>
    /\ UNCHANGED <<batchVars, store, filters, result, reaggVars, pageVars>>

\* json.dump: the buffer of the file object is flushed to the file
WriteChunk ==
    /\ pc \in {"dump", "dump1"}
    /\ LET dir == IF pc = "dump" THEN "measurement" ELSE "forgraph"
       IN  /\ files[dir].written < MaxChunks
           /\ files' = [files EXCEPT ![dir].written = @ + 1]
    /\ UNCHANGED <<threadVars, chunkVars, serviceVars>>
    /\ UNCHANGED <<batchVars, store, filters, result, pc, reaggVars, pageVars>>

\* the with block ends: the rest is flushed, the file is whole
CloseFile ==
    /\ pc \in {"dump", "dump1"}
    /\ LET dir == IF pc = "dump" THEN "measurement" ELSE "forgraph"
       IN  files' = [files EXCEPT ![dir] =
                        [state |-> "complete", json |-> files[dir].json]]
    /\ pc' = "idle"
    /\ UNCHANGED <<threadVars, chunkVars, serviceVars>>
    /\ UNCHANGED <<batchVars, store, filters, result, reaggVars, pageVars>>

\* Hourly tab: data = sum_by_hour(selected_station)
CallHour ==
    /\ ppc = "start"
    /\ reagg' = [fn |-> "sum_by_hour", ret |-> SumByHour(files.forgraph)]
    /\ seen' = files.forgraph
    /\ ppc' = "hour"
    /\ UNCHANGED <<threadVars, chunkVars, serviceVars>>
    /\ UNCHANGED <<batchVars, builderVars, files, rpc>>

\* the Hourly tab subscripts data: dates, the log counts, the five tables
\* and their index keys.  False is not subscriptable, a missing key raises.
HourTabRaises(ret) ==
    \/ ~ret.ok
    \/ ~({"dates", "log_counts_per_hour"} \subseteq DOMAIN ret.data)
    \/ \E field \in Range(TrackedFields) :
          \/ TableKey(field) \notin DOMAIN ret.data
          \/ IndexKey(field) \notin DOMAIN ret.data[TableKey(field)]

\* the Daily and Monthly tabs subscript what sum_by_day / sum_by_month gave
CoarseTabRaises(ret) == ~ret.ok

\* the body of the Hourly tab after the call
RenderHour ==
    /\ ppc = "hour"
    /\ ppc' = IF HourTabRaises(reagg.ret) THEN "exception" ELSE "hour_done"
    /\ UNCHANGED <<threadVars, chunkVars, serviceVars>>
    /\ UNCHANGED <<batchVars, builderVars, files, reaggVars, seen>>

\* Daily tab: data = sum_by_day(selected_station)
CallDay ==
    /\ ppc = "hour_done"
    /\ reagg' = [fn |-> "sum_by_day", ret |-> SumByDay(files.forgraph)]
    /\ seen' = files.forgraph
    /\ ppc' = "day"
    /\ UNCHANGED <<threadVars, chunkVars, serviceVars>>
    /\ UNCHANGED <<batchVars, builderVars, files, rpc>>

RenderDay ==
    /\ ppc = "day"
    /\ ppc' = IF CoarseTabRaises(reagg.ret) THEN "exception" ELSE "day_done"
    /\ UNCHANGED <<threadVars, chunkVars, serviceVars>>
    /\ UNCHANGED <<batchVars, builderVars, files, reaggVars, seen>>

\* Monthly tab: data = sum_by_month(selected_station)
CallMonth ==
    /\ ppc = "day_done"
    /\ reagg' = [fn |-> "sum_by_month", ret |-> SumByMonth(files.forgraph)]
    /\ seen' = files.forgraph
    /\ ppc' = "month"
    /\ UNCHANGED <<threadVars, chunkVars, serviceVars>>
    /\ UNCHANGED <<batchVars, builderVars, files, rpc>>

RenderMonth ==
    /\ ppc = "month"
    /\ ppc' = IF CoarseTabRaises(reagg.ret) THEN "exception" ELSE "done"
    /\ UNCHANGED <<threadVars, chunkVars, serviceVars>>
    /\ UNCHANGED <<batchVars, builderVars, files, reaggVars, seen>>

\* the user interacts with the page: the script runs again from the top
Rerun ==
    /\ ppc \in {"done", "exception"}
    /\ ppc' = "start"
    /\ UNCHANGED <<threadVars, chunkVars, serviceVars>>
    /\ UNCHANGED <<batchVars, builderVars, files, reaggVars, seen>>

NextDash ==
    \/ Compute \/ OpenFile \/ WriteChunk \/ CloseFile
    \/ CallHour \/ RenderHour \/ CallDay \/ RenderDay
    \/ CallMonth \/ RenderMonth \/ Rerun

SpecDash == InitDash /\ [][NextDash]_vars

---------------------------------------------------------------------------
(* The background threads of components/background_processor.py *)

\* PROCESS_STATUS and SHARED_DATA are Manager dictionaries: every read and
\* every assignment is one call to the manager and one step of a thread.
\* The time stamps and the error text of PROCESS_STATUS are left out.  A
\* dataframe is the number of the load that stored it, metrics_data and
\* metrics_results the number of the dataframe they were computed from.
Contains(d, k) == \E i \in 1..Len(d) : d[i][1] = k
GetItem(d, k) == d[CHOOSE i \in 1..Len(d) : d[i][1] = k][2]
SetItem(d, k, v) ==
    IF Contains(d, k)
    THEN [i \in 1..Len(d) |-> IF d[i][1] = k THEN <<k, v>> ELSE d[i]]
    ELSE Append(d, <<k, v>>)
DelItem(d, k) == SelectSeq(d, LAMBDA e : e[1] # k)
Keys(d) == [i \in 1..Len(d) |-> d[i][1]]

\* a thread that was started and whose function has not returned
Running(position) == position \notin {"none", "done"}
LoadRunning == \E i \in 1..MaxLoads : Running(loaders[i])

\* the data both start_background_metrics_calculation and
\* calculate_metrics_background ask for
DataAvailable == Contains(SHARED_DATA, "df") /\ Contains(SHARED_DATA, "metrics_data")

InitThreads ==
    /\ store = << >>
    /\ filters = [start_date |-> 0, end_date |-> 0]
    /\ result = Failure
    /\ files = [measurement |-> NoFile, forgraph |-> NoFile]
    /\ pc = "idle"
    /\ rpc = "edit"
    /\ reagg = NoCall
    /\ ppc = "start"
    /\ seen = NoFile
    /\ NoRuns

\* start_background_data_loading, called from the script thread: the flag is
\* looked at and, when it is False, a thread is created and started
StartBackgroundDataLoading ==
    /\ PROCESS_STATUS.loading_data \/ \E i \in 1..MaxLoads : loaders[i] = "none"
    /\ IF PROCESS_STATUS.loading_data
       THEN /\ started' = [ret |-> "False", busy |-> LoadRunning]
            /\ UNCHANGED loaders
       ELSE LET i == CHOOSE j \in 1..MaxLoads :
                        loaders[j] = "none" /\ \A k \in 1..(j - 1) : loaders[k] # "none"
            IN  /\ loaders' = [loaders EXCEPT ![i] = "new"]
                /\ started' = [ret |-> "True", busy |-> LoadRunning]
    /\ UNCHANGED <<PROCESS_STATUS, SHARED_DATA, calcs, resetter, snapshot>>
    /\ UNCHANGED <<builderVars, files, reaggVars, pageVars, batchVars,
                   chunkVars, serviceVars>>

\* a step of loader i that assigns PROCESS_STATUS[flag] = value
LoaderSets(i, from, flag, value, to) ==
    /\ loaders[i] = from
    /\ PROCESS_STATUS' = [PROCESS_STATUS EXCEPT ![flag] = value]
    /\ loaders' = [loaders EXCEPT ![i] = to]
    /\ UNCHANGED <<SHARED_DATA, calcs, resetter, snapshot, started>>
    /\ UNCHANGED <<builderVars, files, reaggVars, pageVars, batchVars,
                   chunkVars, serviceVars>>

\* a step of loader i that assigns SHARED_DATA[key] = the dataframe of load i
LoaderStores(i, from, key, to) ==
    /\ loaders[i] = from
    /\ SHARED_DATA' = SetItem(SHARED_DATA, key, i)
    /\ loaders' = [loaders EXCEPT ![i] = to]
    /\ UNCHANGED <<PROCESS_STATUS, calcs, resetter, snapshot, started>>
    /\ UNCHANGED <<builderVars, files, reaggVars, pageVars, batchVars,
                   chunkVars, serviceVars>>

\* load_data_background: mark_data_loading_started()
LoadMarkStarted(i) ==
    \/ LoaderSets(i, "new", "loading_data", TRUE, "started")
    \/ LoaderSets(i, "started", "data_loaded", FALSE, "fetch")

\* MongoClient(...) up to the sample columns: the documents arrive, or an
\* exception takes the thread to the except clause
LoadFetch(i) ==
    /\ loaders[i] = "fetch"
    /\ \E to \in {"store_df", "raised"} : loaders' = [loaders EXCEPT ![i] = to]
    /\ UNCHANGED <<PROCESS_STATUS, SHARED_DATA, calcs, resetter, snapshot, started>>
    /\ UNCHANGED <<builderVars, files, reaggVars, pageVars, batchVars,
                   chunkVars, serviceVars>>

\* SHARED_DATA['df'] = df; SHARED_DATA['metrics_data'] = metrics_data
LoadStore(i) ==
    \/ LoaderStores(i, "store_df", "df", "store_metrics_data")
    \/ LoaderStores(i, "store_metrics_data", "metrics_data", "completed")

\* mark_data_loading_completed(success=True)
LoadMarkCompleted(i) ==
    \/ LoaderSets(i, "completed", "loading_data", FALSE, "completed2")
    \/ LoaderSets(i, "completed2", "data_loaded", TRUE, "start_metrics")

\* except: mark_data_loading_completed(success=False, error=e); return False
LoadMarkFailed(i) ==
    \/ LoaderSets(i, "raised", "loading_data", FALSE, "raised2")
    \/ LoaderSets(i, "raised2", "data_loaded", FALSE, "done")

\* start_background_metrics_calculation() called by loader i, then return
\* True: the flag is read, then SHARED_DATA is asked for the two keys, then
\* the thread is started
LoadStartMetrics(i) ==
    /\ \/ /\ loaders[i] = "start_metrics"
          /\ loaders' = [loaders EXCEPT ![i] =
                           IF PROCESS_STATUS.calculating_metrics THEN "done" ELSE "check_data"]
          /\ UNCHANGED calcs
       \/ /\ loaders[i] = "check_data"
          /\ loaders' = [loaders EXCEPT ![i] = "done"]
          /\ calcs' = IF DataAvailable
                      THEN [calcs EXCEPT ![i] = [pc |-> "new", df |-> 0]]
                      ELSE calcs
    /\ UNCHANGED <<PROCESS_STATUS, SHARED_DATA, resetter, snapshot, started>>
    /\ UNCHANGED <<builderVars, files, reaggVars, pageVars, batchVars,
                   chunkVars, serviceVars>>

\* a step of calculation thread i that assigns PROCESS_STATUS[flag] = value
CalcSets(i, from, flag, value, to) ==
    /\ calcs[i].pc = from
    /\ PROCESS_STATUS' = [PROCESS_STATUS EXCEPT ![flag] = value]
    /\ calcs' = [calcs EXCEPT ![i].pc = to]
    /\ UNCHANGED <<SHARED_DATA, loaders, resetter, snapshot, started>>
    /\ UNCHANGED <<builderVars, files, reaggVars, pageVars, batchVars,
                   chunkVars, serviceVars>>

\* calculate_metrics_background: the test for the two keys, then
\* df = SHARED_DATA['df'] and df_stats = SHARED_DATA['metrics_data'], each
\* a KeyError when the key has gone
CalcRead(i) ==
    /\ \/ /\ calcs[i].pc = "new"
          /\ calcs' = [calcs EXCEPT ![i].pc = IF DataAvailable THEN "read_df" ELSE "raised"]
       \/ /\ calcs[i].pc = "read_df"
          /\ calcs' = IF Contains(SHARED_DATA, "df")
                      THEN [calcs EXCEPT ![i] = [pc |-> "read_metrics_data",
                                                 df |-> GetItem(SHARED_DATA, "df")]]
                      ELSE [calcs EXCEPT ![i].pc = "raised"]
       \/ /\ calcs[i].pc = "read_metrics_data"
          /\ calcs' = [calcs EXCEPT ![i].pc =
                         IF Contains(SHARED_DATA, "metrics_data") THEN "mark_started" ELSE "raised"]
    /\ UNCHANGED <<PROCESS_STATUS, SHARED_DATA, loaders, resetter, snapshot, started>>
    /\ UNCHANGED <<builderVars, files, reaggVars, pageVars, batchVars,
                   chunkVars, serviceVars>>

\* mark_metrics_calculation_started()
CalcMarkStarted(i) ==
    \/ CalcSets(i, "mark_started", "calculating_metrics", TRUE, "started")
    \/ CalcSets(i, "started", "metrics_calculated", FALSE, "store")

\* the metrics are computed from df, then
\* SHARED_DATA['metrics_results'] = metrics_results
CalcStore(i) ==
    /\ calcs[i].pc = "store"
    /\ SHARED_DATA' = SetItem(SHARED_DATA, "metrics_results", calcs[i].df)
    /\ calcs' = [calcs EXCEPT ![i].pc = "completed"]
    /\ UNCHANGED <<PROCESS_STATUS, loaders, resetter, snapshot, started>>
    /\ UNCHANGED <<builderVars, files, reaggVars, pageVars, batchVars,
                   chunkVars, serviceVars>>

\* mark_metrics_calculation_completed(success=True)
CalcMarkCompleted(i) ==
    \/ CalcSets(i, "completed", "calculating_metrics", FALSE, "completed2")
    \/ CalcSets(i, "completed2", "metrics_calculated", TRUE, "done")

\* mark_metrics_calculation_completed(success=False, ...): no data, or the
\* except clause
CalcMarkFailed(i) ==
    \/ CalcSets(i, "raised", "calculating_metrics", FALSE, "raised2")
    \/ CalcSets(i, "raised2", "metrics_calculated", FALSE, "done")

\* reset_status is called
ResetOrder == <<"loading_data", "data_loaded", "calculating_metrics", "metrics_calculated">>
ResetCall ==
    /\ resetter.pc = "idle"
    /\ resetter.calls < MaxResets
    /\ resetter' = [pc |-> "flags", n |-> 1, keys |-> << >>, calls |-> resetter.calls + 1]
    /\ UNCHANGED <<PROCESS_STATUS, SHARED_DATA, loaders, calcs, snapshot, started>>
    /\ UNCHANGED <<builderVars, files, reaggVars, pageVars, batchVars,
                   chunkVars, serviceVars>>

\* reset_status: the four flags are set to False, one after the other
ResetFlag ==
    /\ resetter.pc = "flags"
    /\ PROCESS_STATUS' = [PROCESS_STATUS EXCEPT ![ResetOrder[resetter.n]] = FALSE]
    /\ resetter' = IF resetter.n < Len(ResetOrder)
                   THEN [resetter EXCEPT !.n = @ + 1]
                   ELSE [resetter EXCEPT !.pc = "keys"]
    /\ UNCHANGED <<SHARED_DATA, loaders, calcs, snapshot, started>>
    /\ UNCHANGED <<builderVars, files, reaggVars, pageVars, batchVars,
                   chunkVars, serviceVars>>

\* reset_status: keys_to_remove is filled from SHARED_DATA.keys()
ResetKeys ==
    /\ resetter.pc = "keys"
    /\ resetter' = [resetter EXCEPT !.pc = "delete", !.keys = Keys(SHARED_DATA)]
    /\ UNCHANGED <<PROCESS_STATUS, SHARED_DATA, loaders, calcs, snapshot, started>>
    /\ UNCHANGED <<builderVars, files, reaggVars, pageVars, batchVars,
                   chunkVars, serviceVars>>

\* reset_status: `if key in SHARED_DATA: del SHARED_DATA[key]` for the next
\* key of keys_to_remove; the function returns after the last one
ResetDelete ==
    /\ resetter.pc = "delete"
    /\ IF resetter.keys = << >>
       THEN /\ resetter' = [resetter EXCEPT !.pc = "idle"]
            /\ UNCHANGED SHARED_DATA
       ELSE /\ SHARED_DATA' = DelItem(SHARED_DATA, Head(resetter.keys))
            /\ resetter' = [resetter EXCEPT !.keys = Tail(@)]
    /\ UNCHANGED <<PROCESS_STATUS, loaders, calcs, snapshot, started>>
    /\ UNCHANGED <<builderVars, files, reaggVars, pageVars, batchVars,
                   chunkVars, serviceVars>>

\* get_process_status: dict(PROCESS_STATUS)
GetProcessStatus ==
    /\ snapshot' = PROCESS_STATUS
    /\ UNCHANGED <<PROCESS_STATUS, SHARED_DATA, loaders, calcs, resetter, started>>
    /\ UNCHANGED <<builderVars, files, reaggVars, pageVars, batchVars,
                   chunkVars, serviceVars>>

LoaderStep(i) ==
    \/ LoadMarkStarted(i)
    \/ LoadFetch(i)
    \/ LoadStore(i)
    \/ LoadMarkCompleted(i)
    \/ LoadMarkFailed(i)
    \/ LoadStartMetrics(i)

CalcStep(i) ==
    \/ CalcRead(i)
    \/ CalcMarkStarted(i)
    \/ CalcStore(i)
    \/ CalcMarkCompleted(i)
    \/ CalcMarkFailed(i)

NextThreads ==
    \/ StartBackgroundDataLoading
    \/ \E i \in 1..MaxLoads : LoaderStep(i)
    \/ \E i \in 1..MaxLoads : CalcStep(i)
    \/ ResetCall
    \/ ResetFlag
    \/ ResetKeys
    \/ ResetDelete
    \/ GetProcessStatus

SpecThreads == InitThreads /\ [][NextThreads]_vars

---------------------------------------------------------------------------
(* Pagination: get_filtered_data_chunk of utils/database.py *)

\* A document is its _id and its _group; the other filter fields behave as
\* _group does.  A collection keeps its documents in the order find() yields.
Groups == {"g1", "g2"}
GroupFilters == {"Select Group"} \cup Groups
StationFilters == {"Select Station"} \cup Range(Stations)

\* min(...) and max(...) of Python
Least(a, b) == IF a <= b THEN a ELSE b
Greatest(a, b) == IF a >= b THEN a ELSE b

\* the documents of a collection the query matches, in find() order
Query(coll, group) ==
    SelectSeq(coll, LAMBDA d : group = "Select Group" \/ d.group = group)

\* cursor.skip(n).limit(m) with m > 0
SkipLimit(docs, n, m) == SubSeq(docs, n + 1, Least(Len(docs), n + m))

\* get_collections(_db)[:2], or the station alone
QueriedCollections == 2
CollectionsToQuery(station) ==
    IF station # "Select Station" THEN <<station>>
    ELSE SubSeq(Stations, 1, Least(QueriedCollections, Len(Stations)))

\* the per-collection limit: min(limit - len(data), 100)
CollectionLimit(limit, data) == Least(limit - Len(data), PerCollection)

\* the loop over collections_to_query from its k-th collection on, with data
\* and total_processed as the iterations before left them
RECURSIVE ChunkLoop(_, _, _, _, _, _, _, _)
ChunkLoop(d, names, k, skip, limit, group, data, total_processed) ==
    IF k > Len(names) THEN data
    ELSE LET matching == Query(d[names[k]], group)
             collection_skip == Greatest(0, skip - total_processed)
             collection_limit == CollectionLimit(limit, data)
         IN  IF collection_limit <= 0 THEN data
             ELSE LET more == data \o SkipLimit(matching, collection_skip, collection_limit)
                  IN  IF Len(more) >= limit THEN more
                      ELSE ChunkLoop(d, names, k + 1, skip, limit, group, more,
                                     total_processed + Len(matching))

GetFilteredDataChunkOf(d, skip, limit, station, group) ==
    ChunkLoop(d, CollectionsToQuery(station), 1, skip, limit, group, << >>, 0)

\* the limits the callers pass: the default (100) and the batch_size of
\* get_filtered_data and load_more_data (200)
DefaultLimit == PerCollection
BatchSize == 2 * PerCollection

InitChunks ==
    /\ store = << >>
    /\ filters = [start_date |-> 0, end_date |-> 0]
    /\ result = Failure
    /\ files = [measurement |-> NoFile, forgraph |-> NoFile]
    /\ pc = "idle"
    /\ rpc = "edit"
    /\ reagg = NoCall
    /\ ppc = "start"
    /\ seen = NoFile
    /\ NoRuns

\* a document is inserted into a collection before the pagination starts
InsertDocument ==
    /\ pager.pc = "setup"
    /\ \E s \in Range(Stations), g \in Groups :
          /\ Len(db[s]) < MaxDocs
          /\ db' = [db EXCEPT ![s] = Append(@, [id |-> <<s, Len(@) + 1>>, group |-> g])]
    /\ UNCHANGED pager
    /\ UNCHANGED <<builderVars, files, reaggVars, pageVars, batchVars,
                   threadVars, serviceVars>>

\* the filters are chosen and the offset is set to 0
ChooseFilter ==
    /\ pager.pc = "setup"
    /\ \E station \in StationFilters, group \in GroupFilters,
          limit \in {DefaultLimit, BatchSize} :
          pager' = [pc |-> "paging", skip |-> 0, got |-> << >>,
                    filter |-> [station |-> station, group |-> group, limit |-> limit]]
    /\ UNCHANGED db
    /\ UNCHANGED <<builderVars, files, reaggVars, pageVars, batchVars,
                   threadVars, serviceVars>>

\* get_filtered_data_chunk(_db, skip, limit, station, group, ...) is called;
\* the caller appends what it returns and advances the offset by its length
GetFilteredDataChunk ==
    /\ pager.pc = "paging"
    /\ LET data == GetFilteredDataChunkOf(db, pager.skip, pager.filter.limit,
                                          pager.filter.station, pager.filter.group)
       IN  pager' = IF data = << >>
                    THEN [pager EXCEPT !.pc = "done"]
                    ELSE [pager EXCEPT !.got = @ \o data, !.skip = @ + Len(data)]
    /\ UNCHANGED db
    /\ UNCHANGED <<builderVars, files, reaggVars, pageVars, batchVars,
                   threadVars, serviceVars>>

NextChunks == InsertDocument \/ ChooseFilter \/ GetFilteredDataChunk

SpecChunks == InitChunks /\ [][NextChunks]_vars

---------------------------------------------------------------------------
(* The metrics service: run_continuous_monitoring and signal_handler *)

\* stop_event is a module global.  signal_handler runs in the main thread,
\* between two of its steps; a station whose `if stop_event` test has passed
\* is the station in progress.

\* `while not stop_event`
LoopConditionAlways(stop) == TRUE
LoopCondition(stop) == ~stop

ServiceUnchanged ==
    /\ UNCHANGED stop_event
    /\ UNCHANGED <<builderVars, files, reaggVars, pageVars, batchVars,
                   threadVars, chunkVars>>

InitService ==
    /\ store = << >>
    /\ filters = [start_date |-> 0, end_date |-> 0]
    /\ result = Failure
    /\ files = [measurement |-> NoFile, forgraph |-> NoFile]
    /\ pc = "idle"
    /\ rpc = "edit"
    /\ reagg = NoCall
    /\ ppc = "start"
    /\ seen = NoFile
    /\ NoRuns

\* run_continuous_monitoring: self.connect() finds the station collections,
\* or fails and the function returns False
Connect ==
    /\ service.pc = "start"
    /\ \/ \E n \in 0..MaxStations :
             service' = [service EXCEPT !.pc = "prepare", !.stations = n]
       \/ service' = [service EXCEPT !.pc = "returned", !.ret = "False"]
    /\ ServiceUnchanged

\* ensure_metrics_collection() and load_last_processed_timestamps(), or an
\* exception that takes run_continuous_monitoring to `return False`
Prepare ==
    /\ service.pc = "prepare"
    /\ \/ service' = [service EXCEPT !.pc = "while"]
       \/ service' = [service EXCEPT !.pc = "returned", !.ret = "False"]
    /\ ServiceUnchanged

\* the test of the main monitoring loop; after the loop `return True`
WhileTest ==
    /\ service.pc = "while"
    /\ service' = IF LoopCondition(stop_event)
                  THEN [service EXCEPT !.pc = "cycle"]
                  ELSE [service EXCEPT !.pc = "returned", !.ret = "True"]
    /\ ServiceUnchanged

\* process_all_stations up to its loop, or an exception it catches
BeginCycle ==
    /\ service.pc = "cycle"
    /\ \/ service' = [service EXCEPT !.pc = "for", !.station = 1, !.success_count = 0]
       \/ service' = [service EXCEPT !.pc = "sleep", !.slept = 0]
    /\ ServiceUnchanged

\* `for station in self.station_collections: if stop_event: break`, then
\* process_station(station) begins; after the loop the sleep loop begins
ForTest ==
    /\ service.pc = "for"
    /\ service' = IF service.station > service.stations \/ stop_event
                  THEN [service EXCEPT !.pc = "sleep", !.slept = 0]
                  ELSE [service EXCEPT !.pc = "station"]
    /\ ServiceUnchanged

\* process_station(station) returns True or False
ProcessStation ==
    /\ service.pc = "station"
    /\ \E success \in BOOLEAN :
          service' = [service EXCEPT !.pc = "for", !.station = @ + 1,
                                     !.success_count = IF success THEN @ + 1 ELSE @]
    /\ ServiceUnchanged

\* `for _ in range(CHECK_INTERVAL): if stop_event: break; time.sleep(1)`
Sleep ==
    /\ service.pc = "sleep"
    /\ service' = IF service.slept = CheckInterval \/ stop_event
                  THEN [service EXCEPT !.pc = "while"]
                  ELSE [service EXCEPT !.slept = @ + 1]
    /\ ServiceUnchanged

\* SIGINT or SIGTERM arrives: signal_handler sets stop_event
SignalHandler ==
    /\ ~stop_event
    /\ service.pc # "returned"
    /\ stop_event' = TRUE
    /\ service' = [service EXCEPT !.interrupted = service.pc]
    /\ UNCHANGED <<builderVars, files, reaggVars, pageVars, batchVars,
                   threadVars, chunkVars>>

\* the steps of the main thread
MainThread ==
    Connect \/ Prepare \/ WhileTest \/ BeginCycle \/ ForTest \/ ProcessStation \/ Sleep

NextService ==
    \/ Connect
    \/ Prepare
    \/ WhileTest
    \/ BeginCycle
    \/ ForTest
    \/ ProcessStation
    \/ Sleep
    \/ SignalHandler

SpecService == InitService /\ [][NextService]_vars

\* the main thread keeps running: every step it can take terminates
SpecServiceFair == SpecService /\ WF_vars(MainThread)

---------------------------------------------------------------------------
(* Properties of the rollup builder *)

RECURSIVE SumSeq(_, _, _)
\* s[i] + ... + s[j]
SumSeq(s, i, j) == IF i > j THEN 0 ELSE s[j] + SumSeq(s, i, j - 1)

\* a builder run has returned an artifact
Produced == pc \in {"returned", "returned1"} /\ result.ok

\* the tracked fields whose table the artifact d holds
TablesOf(d) == {field \in Range(TrackedFields) : TableKey(field) \in DOMAIN d}

\* the value of a field in a stored document, NaN when the document lacks it
DocValue(d, field) == IF field \in DOMAIN d THEN d[field] ELSE NaN

\* the stored documents whose timestamp lies in [start, end]
InRange == {d \in Range(store) :
               /\ IsDate(d["dtime"])
               /\ d["dtime"] >= filters.start_date /\ d["dtime"] <= filters.end_date}

\* direct count: in-range documents with value v of the field in one of hours
DirectCount(field, v, hours) ==
    Cardinality({d \in InRange : DocValue(d, field) = v /\ HourOf(d) \in hours})

\* the labels of the hours floor(start) .. floor(end)
FullAxis ==
    [k \in 1..(FloorHour(filters.end_date) - FloorHour(filters.start_date) + 1) |->
        Strftime(FloorHour(filters.start_date) + k - 1)]

\* C1 (as claimed): conservation.  For every table of a produced artifact,
\* every value v of its index and every contiguous sub-range i..j of dates,
\* the sum of v's hourly counts over i..j is the number of in-range documents
\* with value v (an absent field being the null value) whose hour is in i..j.
C1_Conservation ==
    Produced =>
        \A field \in TablesOf(result.data) :
            LET table == result.data[TableKey(field)]
                index == table[Str(IndexKey(field))]
                dates == result.data.dates
            IN  \A n \in 1..Len(index) : \A i, j \in 1..Len(dates) :
                    i <= j =>
                        SumSeq(table[index[n]], i, j)
                          = DirectCount(field, index[n], {dates[k] : k \in i..j})

\* C2 (as claimed): completeness of the time axis.  With start <= end, dates
\* is the sequence of the hour labels floor(start) .. floor(end).
C2_CompleteAxis ==
    (Produced /\ filters.start_date <= filters.end_date) =>
        result.data.dates = FullAxis

\* C3: alignment.  In a produced artifact every count list of every table and
\* the log counts have Len(dates) entries, and entry i refers to dates[i]: it
\* is the number of in-range documents of that hour (for a table, of those
\* with the value; the list of the absent-field value nan is only measured).
C3_Alignment ==
    Produced =>
        LET d == result.data
        IN  /\ \A field \in TablesOf(d) :
                  LET table == d[TableKey(field)]
                  IN  \A v \in DOMAIN table \ {Str(IndexKey(field))} :
                         /\ Len(table[v]) = Len(d.dates)
                         /\ v # NaN =>
                               \A i \in 1..Len(d.dates) :
                                   table[v][i] = DirectCount(field, v, {d.dates[i]})
            /\ "log_counts_per_hour" \in DOMAIN d =>
                  /\ Len(d.log_counts_per_hour) = Len(d.dates)
                  /\ \A i \in 1..Len(d.dates) :
                        d.log_counts_per_hour[i]
                          = Cardinality({x \in InRange : HourOf(x) = d.dates[i]})

\* C3 witness: an artifact over several hours in which a value has a count
\* in one hour and a zero-filled gap in another
C3_Witness ==
    /\ Produced
    /\ Len(result.data.dates) >= 2
    /\ \E i, j \in 1..Len(result.data.dates) :
          /\ result.data.module_counts_per_hour[Str("A")][i] > 0
          /\ result.data.module_counts_per_hour[Str("A")][j] = 0
          /\ result.data.log_counts_per_hour[j] = 0

\* the null bucket of a table: the list under "null", else under nan
NullKeys(table) == {Str("null"), NaN} \cap DOMAIN table

\* C4 (as claimed): null handling.  For every table, the null value is in
\* the index exactly if an in-range document lacks the field, and the null
\* bucket counts, hour by hour, the in-range documents that lack the field.
C4_NullHandling ==
    Produced =>
        \A field \in TablesOf(result.data) :
            LET table == result.data[TableKey(field)]
                dates == result.data.dates
            IN  /\ (NullKeys(table) # {})
                      <=> (\E d \in InRange : field \notin DOMAIN d)
                /\ \A key \in NullKeys(table) : \A i \in 1..Len(dates) :
                      table[key][i] = DirectCount(field, NaN, {dates[i]})

\* C9 (as claimed): with start <= end and no document in range the builder
\* returns an artifact with the full axis, all-zero log counts and its tables.
C9_NoRecords ==
    (pc = "returned" /\ filters.start_date <= filters.end_date /\ InRange = {}) =>
        /\ result.ok
        /\ result.data.dates = FullAxis
        /\ result.data.log_counts_per_hour = [k \in 1..Len(FullAxis) |-> 0]
        /\ TablesOf(result.data) = Range(TrackedFields)

\* C10 (as claimed): with start > end the builder returns an artifact with
\* empty dates, empty log counts and every table present.
C10_InvertedRange ==
    (pc = "returned" /\ filters.start_date > filters.end_date) =>
        /\ result.ok
        /\ result.data.dates = << >>
        /\ result.data.log_counts_per_hour = << >>
        /\ TablesOf(result.data) = Range(TrackedFields)

\* C11 (as claimed): missing dimension fields never abort the batch.  With
\* at least one document in range, whichever tracked fields the documents
\* lack, the builder returns an artifact and not the failure value.
C11_MissingFieldsNoAbort ==
    (pc = "returned" /\ InRange # {}) => result.ok

\* C14: zero fill.  For every table of a produced artifact, every value v
\* of its index and every hour of dates: when no in-range document has the
\* value v in that hour, v's count at the position of the hour is 0.
C14_ZeroFill ==
    Produced =>
        \A field \in TablesOf(result.data) :
            LET table == result.data[TableKey(field)]
                index == table[Str(IndexKey(field))]
                dates == result.data.dates
            IN  \A n \in 1..Len(index) : \A i \in 1..Len(dates) :
                    DirectCount(field, index[n], {dates[i]}) = 0
                        => table[index[n]][i] = 0

\* C14 witness: a label counted in one hour of the axis and absent from
\* another hour, in which a document of another kind lies
C14_Witness ==
    /\ Produced
    /\ \E i, j \in 1..Len(result.data.dates) :
          LET table == result.data.label_counts_per_hour
              dates == result.data.dates
          IN  /\ Str("A") \in DOMAIN table
              /\ table[Str("A")][i] > 0
              /\ DirectCount("_label", Str("A"), {dates[j]}) = 0
              /\ \E d \in InRange : HourOf(d) = dates[j]

\* the artifacts json.load gives for the files a builder has written
Written == {files[dir].json : dir \in {d \in DOMAIN files : files[d].state = "complete"}}

\* C15 (as claimed): consistent stringification.  In every artifact a builder
\* has written, every entry of every index is a string, and the key json.dump
\* gave its count list is the key sum_by_day and sum_by_month look it up by,
\* so that the entry resolves to a count list of its table.
C15_Stringified ==
    Produced =>
        \A json \in Written : \A field \in TablesOf(json) :
            LET table == json[TableKey(field)]
                index == table[IndexKey(field)]
            IN  \A n \in 1..Len(index) :
                    /\ index[n][1] = "str"
                    /\ JsonKey(index[n]) = IndexT(index[n])
                    /\ IndexT(index[n]) \in DOMAIN table \ {IndexKey(field)}

\* the top-level keys sum_by_hour's caller, sum_by_day and sum_by_month read
ReadKeys ==
    {"dates", "log_counts_per_hour"}
        \cup {TableKey(TrackedFields[k]) : k \in 1..Len(TrackedFields)}

\* C16 (as claimed): schema and hand-off.  After a builder run that returned
\* an artifact, the file the dashboard loads (forgraph/) holds that artifact,
\* and the artifact has dates, the five tables and the log counts.
C16_HandOff ==
    Produced =>
        /\ files.forgraph = WholeFile(result.data)
        /\ ReadKeys \subseteq DOMAIN result.data

\* the collection without the documents whose dtime cannot be parsed
Parseable == SelectSeq(store, LAMBDA d : IsDate(d["dtime"]))

\* what the call that has returned may return on that collection
CleanOutcomes ==
    IF pc = "returned" THEN ProcessDataBackground(Parseable, filters)
    ELSE ProcessDataBackgroundNoFilters(Parseable, filters)

\* C18: unparseable timestamps are skipped.  When the builder has returned,
\* with or without a date query: (1) if it returns an artifact without the
\* unparseable documents in the collection, it returns one with them, and
\* the same one; (2) every count of a returned artifact, in the tables and
\* in the log counts, counts documents whose dtime is a date in the range.
C18_UnparseableSkipped ==
    (pc \in {"returned", "returned_nofilters"}) =>
        /\ (\E r \in CleanOutcomes : r.ok) => result \in CleanOutcomes
        /\ result.ok =>
              LET d == result.data
              IN  /\ \A i \in 1..Len(d.dates) :
                        d.log_counts_per_hour[i]
                          = Cardinality({x \in InRange : HourOf(x) = d.dates[i]})
                  /\ \A field \in TablesOf(d) :
                        LET table == d[TableKey(field)]
                        IN  \A v \in DOMAIN table \ {Str(IndexKey(field)), NaN} :
                              \A i \in 1..Len(d.dates) :
                                 table[v][i] = DirectCount(field, v, {d.dates[i]})

\* C18 witness: a call without a date query has fetched a document whose
\* dtime is Garbage and whose module no other document has, together with a
\* document in range, and has returned an artifact
C18_Witness ==
    /\ pc = "returned_nofilters"
    /\ result.ok
    /\ InRange # {}
    /\ \E g \in Range(store) :
          /\ g["dtime"] = Garbage
          /\ "module" \in DOMAIN g
          /\ \A x \in InRange : DocValue(x, "module") # g["module"]

\* the identifiers of the in-range documents whose floored hour has the label
IdsInHour(label) == {x["_id"] : x \in {y \in InRange : HourOf(y) = label}}

\* C20: flat log counts.  In an artifact of preprocess_data.py, for every
\* position i of dates, log_counts_per_hour[i] is the number of distinct _id
\* among the in-range documents whose floored hour is dates[i]; it is 0 when
\* there is none.
C20_LogCounts ==
    (pc = "returned" /\ result.ok) =>
        LET d == result.data
        IN  /\ DOMAIN d.log_counts_per_hour = DOMAIN d.dates
            /\ \A i \in DOMAIN d.dates :
                  /\ d.log_counts_per_hour[i] = Cardinality(IdsInHour(d.dates[i]))
                  /\ IdsInHour(d.dates[i]) = {} => d.log_counts_per_hour[i] = 0

\* C20 witness: an artifact in which one hour holds two documents and
\* another hour of the axis holds none
C20_Witness ==
    /\ pc = "returned" /\ result.ok
    /\ \E i, j \in DOMAIN result.data.dates :
          /\ result.data.log_counts_per_hour[i] = 2
          /\ result.data.log_counts_per_hour[j] = 0

\* the place of a string value in Python's order of strings
LexRank(v) ==
    CASE v = Str("A") -> 1
      [] v = Str("B") -> 2
      [] v = Str("G1") -> 3
      [] v = Str("GET") -> 4
      [] v = Str("main") -> 5

\* the rows of groupby([hour, field]).size() as the frame lists them: sorted
\* by hour and, within an hour, by value
RECURSIVE GroupedRows(_)
GroupedRows(G) ==
    IF G = {} THEN << >>
    ELSE LET least == CHOOSE g \in G : \A h \in G \ {g} :
                         \/ LabelLess(g[1], h[1])
                         \/ g[1] = h[1] /\ LexRank(g[2]) < LexRank(h[2])
         IN  <<least>> \o GroupedRows(G \ {least})

\* the values in the order a scan of the grouped rows first meets them
GroupedFirstSeen(field) ==
    LET G == {<<HourOf(d), d[field]>> : d \in {x \in InRange : field \in DOMAIN x}}
        scan == GroupedRows(G)
    IN  Unique([k \in 1..Len(scan) |-> scan[k][2]])

\* C21 (as claimed): index construction.  For every table of a produced
\* artifact the index lists the values observed among the in-range
\* documents, each once, in the order in which a scan of the grouped
\* (hour, value) rows first meets them.
C21_IndexOrder ==
    Produced =>
        \A field \in TablesOf(result.data) :
            result.data[TableKey(field)][Str(IndexKey(field))]
                = GroupedFirstSeen(field)

---------------------------------------------------------------------------
(* Properties of the batch entry point *)

\* the batch entry point has run and ended
Invoked == pc = "returned" /\ runs > 0

\* C12: store connectivity failure.  When the store is not reachable or the
\* read times out, process_data_background returns the failure value and the
\* artifact files are what they were before the invocation.
C12_ConnectivityFailure ==
    (Invoked /\ conn # "up") => (~result.ok /\ files = before)

\* C12 witness: an invocation that found the store down while an artifact
\* written by an earlier invocation was in place
C12_Witness ==
    /\ Invoked
    /\ conn # "up"
    /\ before.measurement.state = "complete"
    /\ files.measurement.state = "complete"

C17_ExitStatus ==
    Invoked => (status = "0" <=> result.ok)

\* C24 (as claimed): a failed rollup never damages the artifact.  Whenever
\* an invocation has returned the failure value, the artifact files have the
\* content they had before the invocation.
C24_FailureKeepsFile ==
    (Invoked /\ ~result.ok) => files = before

---------------------------------------------------------------------------
(* Properties of the re-aggregators *)

Total(s) == SumSeq(s, 1, Len(s))

\* sum_by_day or sum_by_month was called and returned a result
Reaggregated == reagg.fn # "none" /\ reagg.ret.ok

CalledPrefix == IF reagg.fn = "sum_by_day" THEN DayPrefix ELSE MonthPrefix

\* the artifact has every key the re-aggregators expect: dates, the log
\* counts, the five tables, each table's index and, for every entry of an
\* index, the count list of that entry in the same table
WellFormed(json) ==
    /\ {"dates", "log_counts_per_hour"} \subseteq DOMAIN json
    /\ \A field \in Range(TrackedFields) :
          /\ TableKey(field) \in DOMAIN json
          /\ IndexKey(field) \in DOMAIN json[TableKey(field)]
          /\ LET table == json[TableKey(field)]
                 index == table[IndexKey(field)]
             IN  \A n \in 1..Len(index) :
                    JsonKey(index[n]) \in DOMAIN table \ {IndexKey(field)}

\* C5 (as claimed): losslessness.  For a well-formed hourly artifact, every
\* field and every value v of its index, the counts sum_by_day and
\* sum_by_month return for v have the same total as v's hourly counts, and
\* so have the log counts.
C5_Lossless ==
    (Reaggregated /\ WellFormed(files.forgraph.json)) =>
        LET hourly == files.forgraph.json
            coarse == reagg.ret.data
        IN  /\ \A field \in Range(TrackedFields) :
                  LET table == hourly[TableKey(field)]
                      index == table[IndexKey(field)]
                  IN  \A n \in 1..Len(index) :
                         Total(coarse[ResultKey(field, CalledPrefix)][IndexT(index[n])])
                           = Total(table[JsonKey(index[n])])
            /\ Total(coarse[ResultKey("log", CalledPrefix)])
                  = Total(hourly.log_counts_per_hour)

\* C8 (as claimed): fail fast.  If the loaded artifact lacks an expected
\* key, sum_by_day and sum_by_month return the error value.
C8_FailFast ==
    (reagg.fn # "none" /\ ~WellFormed(files.forgraph.json)) => ~reagg.ret.ok

RECURSIVE SumAt(_, _)
\* the sum of s[i] over the positions i in I
SumAt(s, I) ==
    IF I = {} THEN 0
    ELSE LET i == CHOOSE x \in I : TRUE IN s[i] + SumAt(s, I \ {i})

\* the prefixes of the hourly labels in the order they first appear
FirstSeenPrefixes(dates, plen) ==
    Unique([i \in 1..Len(dates) |-> Truncate(dates[i], plen)])

\* the positions of the hourly axis whose label has the prefix
HoursOf(dates, plen, prefix) ==
    {k \in 1..Len(dates) : Truncate(dates[k], plen) = prefix}

\* C22 (as claimed): coarse bucketing.  For a well-formed hourly artifact the
\* dates of the daily (monthly) result are the distinct day (month) prefixes
\* of the hourly dates in the order of their first appearance, and for every
\* field and value of its index, and for the log counts, the count at coarse
\* position i is the sum of the hourly counts of the hours with prefix
\* dates[i].
C22_CoarseBuckets ==
    (Reaggregated /\ WellFormed(files.forgraph.json)) =>
        LET hourly == files.forgraph.json
            coarse == reagg.ret.data
            plen == CalledPrefix
        IN  /\ coarse.dates = FirstSeenPrefixes(hourly.dates, plen)
            /\ \A i \in 1..Len(coarse.dates) :
                  LET hours == HoursOf(hourly.dates, plen, coarse.dates[i])
                  IN  /\ coarse[ResultKey("log", plen)][i]
                            = SumAt(hourly.log_counts_per_hour, hours)
                      /\ \A field \in Range(TrackedFields) :
                            LET table == hourly[TableKey(field)]
                                index == table[IndexKey(field)]
                            IN  \A n \in 1..Len(index) :
                                   coarse[ResultKey(field, plen)][IndexT(index[n])][i]
                                     = SumAt(table[JsonKey(index[n])], hours)

\* C23: shape of the re-aggregated tables.  In every result of sum_by_day
\* and sum_by_month, every field's index is the index of the hourly
\* artifact, and every entry of the index has, under its key, a count
\* sequence as long as the coarse dates.
C23_Shape ==
    Reaggregated =>
        LET hourly == files.forgraph.json
            coarse == reagg.ret.data
        IN  \A field \in Range(TrackedFields) :
                LET table == coarse[ResultKey(field, CalledPrefix)]
                    index == hourly[TableKey(field)][IndexKey(field)]
                IN  /\ table[IndexKey(field)] = index
                    /\ \A n \in 1..Len(index) :
                          /\ IndexT(index[n]) \in DOMAIN table \ {IndexKey(field)}
                          /\ Len(table[IndexT(index[n])]) = Len(coarse.dates)

\* C23 witness: a result over two coarse dates for a file in which a module
\* value has no occurrence in the first hour and occurs in a later one
C23_Witness ==
    /\ Reaggregated
    /\ Len(reagg.ret.data.dates) >= 2
    /\ LET table == files.forgraph.json.module_counts_per_hour
       IN  \E n \in 1..Len(table["module_index"]) :
              LET counts == table[JsonKey(table["module_index"][n])]
              IN  counts[1] = 0 /\ counts[Len(counts)] > 0

---------------------------------------------------------------------------
(* Properties of the background threads *)

\* the load_data_background threads that were started and have not returned
LiveLoaders == {i \in 1..MaxLoads : Running(loaders[i])}

\* C25: at most one load_data_background thread is running at any time, and
\* a start_background_data_loading call made while a load started before
\* had not completed returned False (and started no thread).
C25_SingleLoader ==
    /\ Cardinality(LiveLoaders) <= 1
    /\ started.busy => started.ret = "False"

\* C26: in every snapshot get_process_status returns, loading_data and
\* data_loaded are not both true, and calculating_metrics and
\* metrics_calculated are not both true.
C26_FlagsConsistent ==
    /\ ~(snapshot.loading_data /\ snapshot.data_loaded)
    /\ ~(snapshot.calculating_metrics /\ snapshot.metrics_calculated)

\* C27: whenever PROCESS_STATUS['metrics_calculated'] is true SHARED_DATA
\* contains 'metrics_results', and whenever 'data_loaded' is true it
\* contains 'df'.
C27_ResultsBehindFlag ==
    /\ PROCESS_STATUS.metrics_calculated => Contains(SHARED_DATA, "metrics_results")
    /\ PROCESS_STATUS.data_loaded => Contains(SHARED_DATA, "df")

\* no load and no calculation is in progress: no thread of either kind is
\* alive and neither flag says so
Quiet ==
    /\ \A i \in 1..MaxLoads : ~Running(loaders[i]) /\ ~Running(calcs[i].pc)
    /\ ~PROCESS_STATUS.loading_data
    /\ ~PROCESS_STATUS.calculating_metrics

\* C28: whenever no load and no calculation is in progress and
\* metrics_calculated is true, SHARED_DATA['metrics_results'] was computed
\* from the dataframe currently stored in SHARED_DATA['df'].
C28_MetricsFollowData ==
    (Quiet /\ PROCESS_STATUS.metrics_calculated)
    => /\ Contains(SHARED_DATA, "metrics_results")
       /\ Contains(SHARED_DATA, "df")
       /\ GetItem(SHARED_DATA, "metrics_results") = GetItem(SHARED_DATA, "df")

---------------------------------------------------------------------------
(* Properties of the pagination *)

\* the documents of the queried collections the filter matches
MatchingDocuments ==
    LET names == CollectionsToQuery(pager.filter.station)
    IN  UNION {Range(Query(db[names[k]], pager.filter.group)) : k \in 1..Len(names)}

\* how often the calls so far have returned document d
Returns(d) == Cardinality({i \in 1..Len(pager.got) : pager.got[i] = d})

\* C29: calling get_filtered_data_chunk from skip = 0, advancing skip by the
\* number of documents returned until a call returns nothing, returns every
\* matching document of the queried collections exactly once.
C29_ExactlyOnce ==
    pager.pc = "done" =>
        /\ \A d \in MatchingDocuments : Returns(d) = 1
        /\ Len(pager.got) = Cardinality(MatchingDocuments)

---------------------------------------------------------------------------
(* Properties of the metrics service *)

\* with stop_event set, a step that begins a station or a monitoring cycle
StartsMore ==
    \/ service.pc = "for" /\ service'.pc = "station"
    \/ service.pc = "while" /\ service'.pc = "cycle"

\* C30: once signal_handler has set stop_event, run_continuous_monitoring
\* eventually returns, and on the way process_all_stations starts no further
\* station and no new monitoring cycle is begun.
C30_GracefulShutdown ==
    /\ stop_event ~> (service.pc = "returned")
    /\ [][stop_event => ~StartsMore]_vars

\* the signal arrived while a station was being processed, with further
\* stations to come, and run_continuous_monitoring has returned
C30_Witness ==
    /\ stop_event
    /\ service.interrupted = "station"
    /\ service.station <= service.stations
    /\ service.pc = "returned"
    /\ service.ret = "True"

---------------------------------------------------------------------------
(* Properties of the dashboard script *)

\* C6 (as claimed): atomic replacement.  Whatever a sum_by_* call reads
\* while the builder rewrites the file is a whole artifact, never an empty
\* or truncated file.
C6_AtomicReplace == seen.state # "partial"

\* C7 (as claimed): isolation of artifact errors.  No exception escapes the
\* rendering of the Hourly, Daily or Monthly tab, also when sum_by_hour,
\* sum_by_day or sum_by_month returned the error value.
C7_ErrorsIsolated == ~(ppc = "exception" /\ ~reagg.ret.ok)

====
